---- MODULE Spec2Model ----
(***************************************************************************)
(* Model of the XSD inference tool: XSDGenerator (xmlgen/xsd_generator.py) *)
(* and the command line driver xsd_creator.py.                             *)
(*                                                                         *)
(* A parsed document is the sequence of its elements in document order     *)
(* (pre-order); element i is a record [tag, attrib, text, parent]:         *)
(*   tag     <<namespace, local>>: lxml's "{namespace}local"; namespace "" *)
(*           is the unqualified tag "local"                                *)
(*   attrib  the ordered attribute mapping, a sequence of <<name, value>>  *)
(*   text    <<>> for None, <<s>> for the string s                         *)
(*   parent  the index of the parent element, 0 for the root               *)
(* An element is identified by its index in the document.                  *)
(* A node of the schema tree is a record [tag, attrib, children] with      *)
(* attrib a function from attribute names to strings.                      *)
(* An optional value (Python None or a value) is <<>> or <<v>>.            *)
(***************************************************************************)
EXTENDS Integers, Sequences, FiniteSets, TLC

VARIABLES
    xml_file,            \* the file of the last generate_xsd: <<>> if it cannot be loaded, else <<document>>
    xsd,                 \* self.xsd: <<>> (None) or <<schema tree>>
    processed_elements,  \* self.processed_elements
    repeated_elements,   \* self.repeated_elements
    typestrict,          \* self.typestrict
    xsd_schema,          \* <<>> before any call, else <<value returned by the last generate_xsd>>
    calls,               \* the process_element invocations of the last generate_xsd
    infers,              \* the infer_type invocations of the last generate_xsd
    ncalls,              \* generate_xsd calls made so far
    files,               \* xsd_creator: the entries list_xml_files returned
    xsd_files,           \* xsd_creator: the file xsd_files/<name>-scheme.xsd of each entry
    create,              \* xsd_creator: args.create
    validate,            \* xsd_creator: args.validate
    idx,                 \* xsd_creator: the position of the loop "for f in files"
    pc,                  \* xsd_creator: "loop", "done", or "failed" after exit(1)
    written,             \* xsd_creator: the entries whose schema file this run wrote
    results              \* xsd_creator: the validation results printed, <<entry, res>>

genvars == <<xml_file, xsd, processed_elements, repeated_elements, typestrict,
             xsd_schema, calls, infers, ncalls>>
cmdvars == <<files, xsd_files, create, validate, idx, pc, written, results>>
vars == <<genvars, cmdvars>>

-----------------------------------------------------------------------------
(* Bounds of the model *)

MaxNodes == 3        \* elements of a document
MaxSmallNodes == 2   \* elements of a document where several documents are generated
MaxCalls == 3        \* generate_xsd calls in one run
MaxFiles == 2        \* entries of the folder given to xsd_creator

-----------------------------------------------------------------------------
(* Input documents *)

Tags == {<<"n", "a">>, <<"", "b">>}
Texts == {<<>>, <<" ">>, <<"42">>}
Attribs == {<<>>, << <<"id", "7">> >>}

RECURSIVE AncestorsOrSelf(_, _)
AncestorsOrSelf(par, i) ==
    IF i = 0 THEN {} ELSE {i} \cup AncestorsOrSelf(par, par[i])

\* The parent vectors of the ordered trees of n elements numbered in pre-order.
ParentVectors(n) ==
    { par \in [1..n -> 0..(n - 1)] :
        /\ par[1] = 0
        /\ \A i \in 2..n : par[i] \in AncestorsOrSelf(par, i - 1) }

\* The document of the parent vector par whose element i carries lab[i].
Doc(par, lab) ==
    [i \in DOMAIN par |-> [tag |-> lab[i].tag, attrib |-> lab[i].attrib,
                           text |-> lab[i].text, parent |-> par[i]]]

Labels == [tag : Tags, attrib : Attribs, text : Texts]

\* The labels of the documents where several documents are generated in one
\* run: no attributes, and a text that is absent or an integer literal.
SmallTags == Tags
SmallTexts == {<<>>, <<"42">>}
SmallLabels == [tag : SmallTags, attrib : {<<>>}, text : SmallTexts]

\* The children of element i, in document order ("for child in element").
Children(doc, i) ==
    SelectSeq([j \in 1..Len(doc) |-> j], LAMBDA j : doc[j].parent = i)

\* element.tag.split('}')[-1]
LocalName(tag) == tag[2]

Range(s) == { s[k] : k \in 1..Len(s) }

-----------------------------------------------------------------------------
(* schema_inferer.infer_type *)

IntegerLiterals == {"42", "7"}
DecimalLiterals == {"3.14"}
BooleanLiterals == {"true", "false"}
DateLiterals == {"2024-01-01"}

infer_type(value) ==
    IF value \in IntegerLiterals THEN "xs:integer"
    ELSE IF value \in DecimalLiterals THEN "xs:decimal"
    ELSE IF value \in BooleanLiterals THEN "xs:boolean"
    ELSE IF value \in DateLiterals THEN "xs:dateTime"
    ELSE "xs:string"

-----------------------------------------------------------------------------
(* XSDGenerator *)

\* XSDGenerator.__init__: the fields of a new instance.
XSDGenerator ==
    [xsd |-> <<>>, processed_elements |-> {}, repeated_elements |-> {},
     typestrict |-> FALSE]

\* Mutant: a name counts as repeated only from its third occurrence on.
IsRepeated_fromThird(count) == count > 2

\* "if count > 1"
IsRepeated(count) == count > 1

RECURSIVE _count_elements(_, _, _)
\* Adds to repeated_elements the local names held by more than one child of
\* one element, over the subtree of `element`.
_count_elements(doc, element, repeated) ==
    LET kids == Children(doc, element)
        child_names == [k \in 1..Len(kids) |-> LocalName(doc[kids[k]].tag)]
        Count(name) == Cardinality({k \in 1..Len(kids) : child_names[k] = name})
        here == repeated \cup {name \in Range(child_names) : IsRepeated(Count(name))}
        RECURSIVE Rest(_, _)
        Rest(k, acc) ==
            IF k > Len(kids) THEN acc
            ELSE Rest(k + 1, _count_elements(doc, kids[k], acc))
    IN Rest(1, here)

find_repeated_elements(doc, root) == _count_elements(doc, root, {})

\* Mutant: the dedup guard never skips.
AlreadyProcessed_never(self, element_name) == FALSE

\* "if element_name in self.processed_elements"
AlreadyProcessed(self, element_name) == element_name \in self.processed_elements

\* Mutant: the name is not recorded as processed.
MarkProcessed_forgotten(self, element_name) == self.processed_elements

\* self.processed_elements.add(element_name)
MarkProcessed(self, element_name) == self.processed_elements \cup {element_name}

\* "unbounded" if element_name in self.repeated_elements else "1"
MaxOccursOf(self, element_name) ==
    IF element_name \in self.repeated_elements THEN "unbounded" ELSE "1"

\* Mutant: minOccurs is set on the root too.
ElementDefAttrib_rootToo(element_name, min_occurs, max_occurs, is_root) ==
    ("name" :> element_name)
    @@ ("minOccurs" :> min_occurs)
    @@ (IF max_occurs # "1" THEN ("maxOccurs" :> max_occurs) ELSE <<>>)

\* The attributes set on element_def at its creation.
ElementDefAttrib(element_name, min_occurs, max_occurs, is_root) ==
    ("name" :> element_name)
    @@ (IF ~is_root THEN ("minOccurs" :> min_occurs) ELSE <<>>)
    @@ (IF max_occurs # "1" THEN ("maxOccurs" :> max_occurs) ELSE <<>>)

\* str.strip() on the texts of the model: a blank text strips to "".
Strip(s) == IF s = " " THEN "" ELSE s

HasChildren(doc, element) == Len(Children(doc, element)) > 0
HasAttributes(doc, element) == Len(doc[element].attrib) > 0

\* Mutant: text counts only on an element without children.
HasText_withoutChildren(doc, element) ==
    /\ doc[element].text # <<>>
    /\ doc[element].text[1] # ""
    /\ Strip(doc[element].text[1]) # ""
    /\ ~HasChildren(doc, element)

\* element.text and element.text.strip()
HasText(doc, element) ==
    /\ doc[element].text # <<>>
    /\ doc[element].text[1] # ""
    /\ Strip(doc[element].text[1]) # ""

\* Mutant: infer_type is called whatever the flag is.
UsesInfer_always(self) == TRUE

\* "infer_type(v) if self.typestrict else 'xs:string'": whether infer_type is called.
UsesInfer(self) == self.typestrict

TypeOf(self, value) == IF UsesInfer(self) THEN infer_type(value) ELSE "xs:string"

\* The xs:attribute declarations of the element's attributes, in order.
AttributeDecls(self, doc, element) ==
    [k \in 1..Len(doc[element].attrib) |->
        [tag |-> "xs:attribute",
         attrib |-> ("name" :> doc[element].attrib[k][1])
                    @@ ("type" :> TypeOf(self, doc[element].attrib[k][2])),
         children |-> <<>>]]

InferCallsOfAttribs(self, doc, element) ==
    IF UsesInfer(self) THEN Len(doc[element].attrib) ELSE 0

RECURSIVE process_element(_, _, _, _, _)
\* self: [processed_elements, repeated_elements, typestrict, calls, infers].
\* The result is [self, out]: the generator after the call and the sequence
\* of nodes the call appended to `parent` (none or one xs:element).
process_element(self, doc, element, min_occurs, is_root) ==
    LET element_name == LocalName(doc[element].tag)
        skip == AlreadyProcessed(self, element_name)
        entered == [self EXCEPT !.calls =
                       Append(@, [element |-> element, name |-> element_name,
                                  defined |-> ~skip])]
    IN
    IF skip THEN [self |-> entered, out |-> <<>>]
    ELSE
    LET s1 == [entered EXCEPT !.processed_elements = MarkProcessed(entered, element_name)]
        max_occurs == MaxOccursOf(s1, element_name)
        attrib0 == ElementDefAttrib(element_name, min_occurs, max_occurs, is_root)
        kids == Children(doc, element)
        RECURSIVE Loop(_, _, _)
        \* "for child in element: self.process_element(child, sequence, min_occurs)"
        Loop(k, s, acc) ==
            IF k > Len(kids) THEN [self |-> s, out |-> acc]
            ELSE LET r == process_element(s, doc, kids[k], min_occurs, FALSE)
                 IN Loop(k + 1, r.self, acc \o r.out)
    IN
    IF HasChildren(doc, element) \/ HasAttributes(doc, element) THEN
        IF HasText(doc, element) THEN
            LET extension == [tag |-> "xs:extension",
                              attrib |-> ("base" :> "xs:string"),
                              children |-> AttributeDecls(s1, doc, element)]
                simple_content == [tag |-> "xs:simpleContent", attrib |-> <<>>,
                                   children |-> <<extension>>]
                complex_type == [tag |-> "xs:complexType", attrib |-> <<>>,
                                 children |-> <<simple_content>>]
            IN [self |-> [s1 EXCEPT !.infers = @ + InferCallsOfAttribs(s1, doc, element)],
                out |-> <<[tag |-> "xs:element", attrib |-> attrib0,
                           children |-> <<complex_type>>]>>]
        ELSE
            LET r == Loop(1, s1, <<>>)
                sequence == [tag |-> "xs:sequence", attrib |-> <<>>, children |-> r.out]
                complex_type == [tag |-> "xs:complexType", attrib |-> <<>>,
                                 children |-> <<sequence>>
                                              \o AttributeDecls(r.self, doc, element)]
            IN [self |-> [r.self EXCEPT !.infers =
                             @ + InferCallsOfAttribs(r.self, doc, element)],
                out |-> <<[tag |-> "xs:element", attrib |-> attrib0,
                           children |-> <<complex_type>>]>>]
    ELSE IF HasText(doc, element) THEN
        [self |-> [s1 EXCEPT !.infers = @ + (IF UsesInfer(s1) THEN 1 ELSE 0)],
         out |-> <<[tag |-> "xs:element",
                    attrib |-> attrib0 @@ ("type" :> TypeOf(s1, doc[element].text[1])),
                    children |-> <<>>]>>]
    ELSE
        [self |-> s1,
         out |-> <<[tag |-> "xs:element", attrib |-> attrib0, children |-> <<>>]>>]

\* etree.tostring(self.xsd, pretty_print=True).decode(): the text of a tree.
tostring(tree) == [text |-> "xml", tree |-> tree]
\* The text returned when loading fails.
FailureText == [text |-> "Failed to generate XSD schema."]
\* Python's None as a returned value.
None == [text |-> "None"]

\* load_xml(xml_path): the parsed tree, or None when loading fails.
load_xml(file) == file

\* Mutant: generate_xsd empties processed_elements before the build.
BuildState_cleared(self, doc) ==
    [processed_elements |-> {},
     repeated_elements |-> find_repeated_elements(doc, 1),
     typestrict |-> self.typestrict, calls |-> <<>>, infers |-> 0]

\* The state process_element works on when generate_xsd starts the build:
\* repeated_elements is recomputed, processed_elements is kept as it is.
BuildState(self, doc) ==
    [processed_elements |-> self.processed_elements,
     repeated_elements |-> find_repeated_elements(doc, 1),
     typestrict |-> self.typestrict, calls |-> <<>>, infers |-> 0]

\* XSDGenerator.generate_xsd on the instance `self` and the file `file`:
\* the instance after the call, with the returned value in `result`.
generate_xsd(self, file) ==
    LET tree == load_xml(file) IN
    IF tree # <<>> THEN
        LET doc == tree[1]
            r == process_element(BuildState(self, doc), doc, 1, "0", TRUE)
            schema == [tag |-> "xs:schema", attrib |-> <<>>, children |-> r.out]
        IN [xsd |-> <<schema>>,
            processed_elements |-> r.self.processed_elements,
            repeated_elements |-> r.self.repeated_elements,
            typestrict |-> self.typestrict,
            calls |-> r.self.calls, infers |-> r.self.infers,
            result |-> tostring(schema)]
    ELSE
        [xsd |-> self.xsd,
         processed_elements |-> self.processed_elements,
         repeated_elements |-> self.repeated_elements,
         typestrict |-> self.typestrict,
         calls |-> <<>>, infers |-> 0,
         result |-> FailureText]

-----------------------------------------------------------------------------
(* Spec: one generate_xsd call on a new XSDGenerator instance *)

\* xsd_creator is not running.
NoCommand ==
    /\ files = <<>>
    /\ xsd_files = <<>>
    /\ create = FALSE
    /\ validate = FALSE
    /\ idx = 1
    /\ pc = "done"
    /\ written = {}
    /\ results = <<>>

\* A new instance, whose typestrict the caller may have set.
NewGenerator ==
    /\ xml_file = <<>>
    /\ xsd = XSDGenerator.xsd
    /\ processed_elements = XSDGenerator.processed_elements
    /\ repeated_elements = XSDGenerator.repeated_elements
    /\ xsd_schema = <<>>
    /\ calls = <<>>
    /\ infers = 0
    /\ ncalls = 0

Init ==
    /\ NewGenerator
    /\ typestrict \in BOOLEAN
    /\ NoCommand

\* The XSDGenerator instance the variables hold.
Self == [xsd |-> xsd, processed_elements |-> processed_elements,
         repeated_elements |-> repeated_elements, typestrict |-> typestrict]

\* The variables take the instance g after its generate_xsd(file).
Becomes(g, file) ==
    /\ xsd' = g.xsd
    /\ processed_elements' = g.processed_elements
    /\ repeated_elements' = g.repeated_elements
    /\ typestrict' = g.typestrict
    /\ calls' = g.calls
    /\ infers' = g.infers
    /\ xsd_schema' = <<g.result>>
    /\ xml_file' = file
    /\ ncalls' = ncalls + 1

\* generator.generate_xsd(file)
GenerateXsd(file) ==
    /\ Becomes(generate_xsd(Self, file), file)
    /\ UNCHANGED cmdvars

\* The file cannot be loaded.
GenerateUnloadable ==
    /\ ncalls = 0
    /\ GenerateXsd(<<>>)

\* The file holds a document of at most MaxNodes elements.
GenerateDocument ==
    /\ ncalls = 0
    /\ \E n \in 1..MaxNodes : \E par \in ParentVectors(n) : \E lab \in [1..n -> Labels] :
            GenerateXsd(<<Doc(par, lab)>>)

Next == GenerateUnloadable \/ GenerateDocument
Spec == Init /\ [][Next]_vars

-----------------------------------------------------------------------------
(* SpecReuse: generate_xsd calls, one after the other, on one instance *)

InitReuse ==
    /\ NewGenerator
    /\ typestrict = XSDGenerator.typestrict
    /\ NoCommand

RegenerateUnloadable ==
    /\ ncalls < MaxCalls
    /\ GenerateXsd(<<>>)

RegenerateDocument ==
    /\ ncalls < MaxCalls
    /\ \E n \in 1..MaxSmallNodes : \E par \in ParentVectors(n) :
         \E lab \in [1..n -> SmallLabels] :
            GenerateXsd(<<Doc(par, lab)>>)

NextReuse == RegenerateUnloadable \/ RegenerateDocument
SpecReuse == InitReuse /\ [][NextReuse]_vars

-----------------------------------------------------------------------------
(* SpecCreate: create_xsd_from_xml calls, one after the other *)

\* Mutant: the calls share one instance instead of building their own.
create_xsd_from_xml_sharedInstance(file, strict) ==
    generate_xsd([Self EXCEPT !.typestrict = strict], file)

\* create_xsd_from_xml(file, typestrict): the instance it built, after
\* generate_xsd, with the returned value in `result`.
create_xsd_from_xml(file, strict) ==
    generate_xsd([XSDGenerator EXCEPT !.typestrict = strict], file)

CreateXsdFromXml(file) ==
    /\ Becomes(create_xsd_from_xml(file, typestrict), file)
    /\ UNCHANGED cmdvars

CreateUnloadable ==
    /\ ncalls < MaxCalls
    /\ CreateXsdFromXml(<<>>)

CreateDocument ==
    /\ ncalls < MaxCalls
    /\ \E n \in 1..MaxSmallNodes : \E par \in ParentVectors(n) :
         \E lab \in [1..n -> SmallLabels] :
            CreateXsdFromXml(<<Doc(par, lab)>>)

NextCreate == CreateUnloadable \/ CreateDocument
SpecCreate == Init /\ [][NextCreate]_vars

-----------------------------------------------------------------------------
(* What the properties speak about *)

\* A generate_xsd call was made and its document was loaded.
Generated == xsd_schema # <<>> /\ xml_file # <<>>
TheDoc == xml_file[1]

NameOf(doc, i) == doc[i].tag[2]
LocalNames(doc) == { NameOf(doc, i) : i \in 1..Len(doc) }
ElementsNamed(doc, name) == { i \in 1..Len(doc) : NameOf(doc, i) = name }
Min(S) == CHOOSE m \in S : \A o \in S : m <= o

BlankTexts == {"", " "}
\* Element i has text that is not blank.
NonBlankText(doc, i) == doc[i].text # <<>> /\ doc[i].text[1] \notin BlankTexts
ChildSet(doc, i) == { j \in 1..Len(doc) : doc[j].parent = i }

RECURSIVE Descendants(_, _)
Descendants(doc, i) ==
    ChildSet(doc, i) \cup UNION { Descendants(doc, j) : j \in ChildSet(doc, i) }

RECURSIVE Reached(_, _)
\* Element i is the first element of its name, in document order, among the
\* reached elements.
FirstReached(doc, i) ==
    /\ Reached(doc, i)
    /\ \A j \in 1..(i - 1) : Reached(doc, j) => NameOf(doc, j) # NameOf(doc, i)
\* The traversal comes to element i: i is the root, or the parent of i is
\* the first reached element of its name and has no non-blank text.
Reached(doc, i) ==
    \/ i = 1
    \/ /\ i > 1
       /\ FirstReached(doc, doc[i].parent)
       /\ ~NonBlankText(doc, doc[i].parent)

RECURSIVE ElementDefs(_)
\* The xs:element nodes of a schema tree, in document order.
ElementDefs(node) ==
    LET RECURSIVE Over(_)
        Over(k) == IF k > Len(node.children) THEN <<>>
                   ELSE ElementDefs(node.children[k]) \o Over(k + 1)
    IN (IF node.tag = "xs:element" THEN <<node>> ELSE <<>>) \o Over(1)

DefsNamed(name) == SelectSeq(ElementDefs(xsd[1]), LAMBDA d : d.attrib["name"] = name)

\* The content model of an element definition.
ContentKind(def) ==
    IF def.children = <<>>
    THEN IF "type" \in DOMAIN def.attrib THEN "simple" ELSE "empty"
    ELSE IF def.children[1].children[1].tag = "xs:simpleContent"
         THEN "simpleContent" ELSE "sequence"

\* The content model section 4.3 gives element i.
ExpectedKind(doc, i) ==
    IF ChildSet(doc, i) # {} \/ doc[i].attrib # <<>>
    THEN IF NonBlankText(doc, i) THEN "simpleContent" ELSE "sequence"
    ELSE IF NonBlankText(doc, i) THEN "simple" ELSE "empty"

\* The xs:attribute declarations of an element definition.
DeclaredAttributes(def) ==
    IF ContentKind(def) = "simpleContent"
    THEN def.children[1].children[1].children[1].children
    ELSE IF ContentKind(def) = "sequence" THEN Tail(def.children[1].children)
    ELSE <<>>

\* The xs:element nodes directly in the sequence of an element definition.
DeclaredChildren(def) ==
    IF ContentKind(def) = "sequence" THEN def.children[1].children[1].children
    ELSE <<>>

ExpectedType(value) == IF typestrict THEN infer_type(value) ELSE "xs:string"

\* def is the definition process_element builds from element i.
DerivedFrom(def, doc, i) ==
    /\ def.attrib["name"] = NameOf(doc, i)
    /\ ContentKind(def) = ExpectedKind(doc, i)
    /\ Len(DeclaredAttributes(def)) = Len(doc[i].attrib)
    /\ \A k \in 1..Len(doc[i].attrib) :
          /\ DeclaredAttributes(def)[k].tag = "xs:attribute"
          /\ DeclaredAttributes(def)[k].attrib["name"] = doc[i].attrib[k][1]
          /\ DeclaredAttributes(def)[k].attrib["type"] = ExpectedType(doc[i].attrib[k][2])
    /\ LET firsts == SelectSeq([j \in 1..Len(doc) |-> j],
                               LAMBDA j : doc[j].parent = i /\ FirstReached(doc, j))
       IN ContentKind(def) = "sequence" =>
            /\ Len(DeclaredChildren(def)) = Len(firsts)
            /\ \A k \in 1..Len(firsts) :
                  DeclaredChildren(def)[k].attrib["name"] = NameOf(doc, firsts[k])

\* The invocation of process_element on element i passed the dedup guard.
RanBody(i) == \E k \in 1..Len(calls) : calls[k].element = i /\ calls[k].defined
Invoked(i) == \E k \in 1..Len(calls) : calls[k].element = i

-----------------------------------------------------------------------------
(* C1 *)

-----------------------------------------------------------------------------
(* C2 *)

\* Two children of one element share the local name.
RepeatsUnderAParent(doc, name) ==
    \E i, j \in 2..Len(doc) :
        /\ i # j
        /\ doc[i].parent = doc[j].parent
        /\ NameOf(doc, i) = name
        /\ NameOf(doc, j) = name

\* C2: a local name held by more than one child of some element has
\* maxOccurs="unbounded" on every definition emitted for it, and every other
\* emitted definition has no maxOccurs attribute.
C2_Repetition ==
    Generated =>
        /\ repeated_elements =
              { name \in LocalNames(TheDoc) : RepeatsUnderAParent(TheDoc, name) }
        /\ LET defs == ElementDefs(xsd[1]) IN
           \A k \in 1..Len(defs) :
              IF RepeatsUnderAParent(TheDoc, defs[k].attrib["name"])
              THEN /\ "maxOccurs" \in DOMAIN defs[k].attrib
                   /\ defs[k].attrib["maxOccurs"] = "unbounded"
              ELSE "maxOccurs" \notin DOMAIN defs[k].attrib

\* A schema with a definition of a repeated name and one of a name that is
\* not repeated.
C2_Witness ==
    /\ Generated
    /\ LET defs == ElementDefs(xsd[1]) IN
       \E k, l \in 1..Len(defs) :
          /\ RepeatsUnderAParent(TheDoc, defs[k].attrib["name"])
          /\ ~RepeatsUnderAParent(TheDoc, defs[l].attrib["name"])

-----------------------------------------------------------------------------
(* C3 *)

\* C3: the definition of the document root has no minOccurs attribute and
\* every other emitted definition has minOccurs="0".
C3_RootInvariant ==
    Generated =>
        LET defs == ElementDefs(xsd[1]) IN
        /\ Len(defs) >= 1
        /\ xsd[1].children = <<defs[1]>>
        /\ defs[1].attrib["name"] = NameOf(TheDoc, 1)
        /\ "minOccurs" \notin DOMAIN defs[1].attrib
        /\ \A k \in 2..Len(defs) :
              /\ "minOccurs" \in DOMAIN defs[k].attrib
              /\ defs[k].attrib["minOccurs"] = "0"

\* A schema with the root's definition and a definition of another element.
C3_Witness == Generated /\ Len(ElementDefs(xsd[1])) >= 2

-----------------------------------------------------------------------------
(* C4 *)

\* Element i has non-blank text and an attribute or a child.
TextAndMore(doc, i) ==
    NonBlankText(doc, i) /\ (doc[i].attrib # <<>> \/ ChildSet(doc, i) # {})

\* C4: an element that process_element defines and that has non-blank text
\* and an attribute or a child gets a complexType with a simpleContent
\* extension of base xs:string that declares exactly its attributes; the
\* definition holds no child definition and process_element is invoked on
\* none of its descendants.
C4_SimpleContentPrecedence ==
    Generated =>
        \A i \in 1..Len(TheDoc) :
            (RanBody(i) /\ TextAndMore(TheDoc, i)) =>
                /\ Len(DefsNamed(NameOf(TheDoc, i))) = 1
                /\ LET d == DefsNamed(NameOf(TheDoc, i))[1] IN
                    /\ Len(d.children) = 1
                    /\ d.children[1].tag = "xs:complexType"
                    /\ Len(d.children[1].children) = 1
                    /\ d.children[1].children[1].tag = "xs:simpleContent"
                    /\ Len(d.children[1].children[1].children) = 1
                    /\ LET ext == d.children[1].children[1].children[1] IN
                        /\ ext.tag = "xs:extension"
                        /\ ext.attrib = ("base" :> "xs:string")
                        /\ Len(ext.children) = Len(TheDoc[i].attrib)
                        /\ \A k \in 1..Len(ext.children) :
                              /\ ext.children[k].tag = "xs:attribute"
                              /\ ext.children[k].attrib =
                                    ("name" :> TheDoc[i].attrib[k][1])
                                    @@ ("type" :> ExpectedType(TheDoc[i].attrib[k][2]))
                    /\ Len(ElementDefs(d)) = 1
                /\ \A j \in Descendants(TheDoc, i) : ~Invoked(j)

\* A defined element with non-blank text, an attribute and a child.
C4_Witness ==
    /\ Generated
    /\ \E i \in 1..Len(TheDoc) :
          /\ RanBody(i)
          /\ NonBlankText(TheDoc, i)
          /\ TheDoc[i].attrib # <<>>
          /\ ChildSet(TheDoc, i) # {}

-----------------------------------------------------------------------------
(* C5 *)

RECURSIVE SchemaNodes(_)
\* The nodes of a schema tree.
SchemaNodes(node) ==
    {node} \cup UNION { SchemaNodes(node.children[k]) : k \in 1..Len(node.children) }

\* C5: with typestrict off, infer_type is never called during generation and
\* every type in the schema is xs:string.
C5_NoInferenceWhenNotStrict ==
    (xsd_schema # <<>> /\ ~typestrict) =>
        /\ infers = 0
        /\ Generated =>
              \A node \in SchemaNodes(xsd[1]) :
                  /\ "type" \in DOMAIN node.attrib => node.attrib["type"] = "xs:string"
                  /\ "base" \in DOMAIN node.attrib => node.attrib["base"] = "xs:string"

\* typestrict is off and the schema types the text of a text-only element
\* and an attribute, both of them integer literals.
C5_Witness ==
    /\ Generated
    /\ ~typestrict
    /\ \E i, j \in 1..Len(TheDoc) :
          /\ RanBody(i) /\ RanBody(j)
          /\ ExpectedKind(TheDoc, i) = "simple"
          /\ TheDoc[i].text[1] \in IntegerLiterals
          /\ TheDoc[j].attrib # <<>>
          /\ TheDoc[j].attrib[1][2] \in IntegerLiterals

-----------------------------------------------------------------------------
(* C9 *)

\* C9: the build ends with a schema tree; process_element is invoked at most
\* once on an element, in document order; the body past the dedup guard runs
\* at most once for a local name; after an invocation on an element of some
\* name no later element of that name runs the body, and no descendant of a
\* skipped element is visited.
C9_SinglePass ==
    Generated =>
        /\ xsd # <<>>
        /\ xsd[1].tag = "xs:schema"
        /\ xsd_schema[1] = tostring(xsd[1])
        /\ Len(calls) <= Len(TheDoc)
        /\ \A k, l \in 1..Len(calls) :
              k < l =>
                  /\ calls[k].element < calls[l].element
                  /\ calls[k].name = calls[l].name => ~calls[l].defined
        /\ \A l \in 1..Len(calls) :
              ~calls[l].defined =>
                  \A j \in Descendants(TheDoc, calls[l].element) : ~Invoked(j)

\* A build that skipped an element that has children.
C9_Witness ==
    /\ Generated
    /\ \E l \in 1..Len(calls) :
          /\ ~calls[l].defined
          /\ ChildSet(TheDoc, calls[l].element) # {}

-----------------------------------------------------------------------------
(* C10 *)

DefinedNames(schema) ==
    { ElementDefs(schema)[k].attrib["name"] : k \in 1..Len(ElementDefs(schema)) }

\* C10: over the generate_xsd calls on one instance processed_elements only
\* grows; a call that loads its document defines exactly the names it adds
\* to processed_elements, so no name an earlier call defined; and a call on
\* the document of the call before it yields a schema with no element
\* definition.
C10_ProcessedNamesKept ==
    [][ /\ processed_elements \subseteq processed_elements'
        /\ xml_file' # <<>> =>
              /\ DefinedNames(xsd'[1]) = processed_elements' \ processed_elements
              /\ DefinedNames(xsd'[1]) \cap processed_elements = {}
        /\ (xsd_schema # <<>> /\ xml_file # <<>> /\ xml_file' = xml_file) =>
              ElementDefs(xsd'[1]) = <<>>
      ]_vars

\* A later call on the instance loaded a document and defined nothing.
C10_Witness ==
    /\ Generated
    /\ ncalls >= 2
    /\ ElementDefs(xsd[1]) = <<>>

-----------------------------------------------------------------------------
(* C6 *)

\* What generate_xsd returns on an instance nothing was generated with.
FreshResult(file, strict) ==
    generate_xsd([xsd |-> <<>>, processed_elements |-> {},
                  repeated_elements |-> {}, typestrict |-> strict], file)

-----------------------------------------------------------------------------
(* SpecCommand: xsd_creator.py with -l/--list, over a folder *)

\* The text of a schema file that an earlier run left in xsd_files.
EarlierSchemaText == tostring([tag |-> "xs:schema", attrib |-> <<>>, children |-> <<>>])
\* The text of a file that is no XML.
BrokenText == [text |-> "<xs:schema"]

\* etree.parse / etree.fromstring succeed on the text.
Parses(content) == content.text = "xml"

\* An entry of the folder: os.path.isfile of it, and what parsing its
\* content gives (<<>> when the content is malformed).
Entries ==
    [isfile : BOOLEAN,
     xml : {<<>>} \cup { <<Doc(<<0>>, <<lab>>)>> : lab \in SmallLabels }]

\* validate_xml_against_xsd(xmlfile, xsdfile): "raise" when etree.parse of
\* the schema file or etree.fromstring of the XML raises, else the result
\* of xsd.validate, which is `valid`.
validate_xml_against_xsd(xml, xsd_content, valid) ==
    IF ~Parses(xsd_content) THEN "raise"
    ELSE IF xml = <<>> THEN "raise"
    ELSE IF valid THEN "True" ELSE "False"

InitCommand ==
    /\ NewGenerator
    /\ typestrict \in BOOLEAN
    /\ create \in BOOLEAN
    /\ validate \in BOOLEAN
    /\ create \/ validate
    /\ \E n \in 0..MaxFiles :
          /\ files \in [1..n -> Entries]
          /\ xsd_files \in [1..n -> {<<>>, <<EarlierSchemaText>>, <<BrokenText>>}]
    /\ idx = 1
    /\ pc = "loop"
    /\ written = {}
    /\ results = <<>>

\* "if not check_file_exists(f): continue"
SkipMissing ==
    /\ pc = "loop"
    /\ idx <= Len(files)
    /\ ~files[idx].isfile
    /\ idx' = idx + 1
    /\ UNCHANGED <<genvars, files, xsd_files, create, validate, pc, written, results>>

\* One pass of the loop body on a file that exists: the create part, then
\* the validate part; an exception leaves the loop for the handler, which
\* prints it and calls exit(1).
ProcessFile ==
    /\ pc = "loop"
    /\ idx <= Len(files)
    /\ files[idx].isfile
    /\ LET f == files[idx]
           g == create_xsd_from_xml(f.xml, typestrict)
           xsd_file == IF create THEN <<g.result>> ELSE xsd_files[idx]
       IN
       /\ IF create
          THEN /\ Becomes(g, f.xml)
               /\ written' = written \cup {idx}
          ELSE UNCHANGED <<genvars, written>>
       /\ xsd_files' = [xsd_files EXCEPT ![idx] = xsd_file]
       /\ IF ~validate \/ xsd_file = <<>>
          THEN /\ idx' = idx + 1
               /\ UNCHANGED <<pc, results>>
          ELSE \E valid \in BOOLEAN :
                 LET res == validate_xml_against_xsd(f.xml, xsd_file[1], valid) IN
                 IF res = "raise"
                 THEN /\ pc' = "failed"
                      /\ UNCHANGED <<idx, results>>
                 ELSE /\ results' = Append(results, <<idx, res>>)
                      /\ idx' = idx + 1
                      /\ UNCHANGED pc
    /\ UNCHANGED <<files, create, validate>>

\* The loop is over and the program ends.
Finish ==
    /\ pc = "loop"
    /\ idx > Len(files)
    /\ pc' = "done"
    /\ UNCHANGED <<genvars, files, xsd_files, create, validate, idx, written, results>>

NextCommand == SkipMissing \/ ProcessFile \/ Finish
SpecCommand == InitCommand /\ [][NextCommand]_vars

-----------------------------------------------------------------------------
(* C7 *)

\* C7: in the folder mode a failure on one file is reported for that file
\* only and every later file is still processed: when the run has ended,
\* no file after the current entry is left unprocessed.
C7_FailureIsolated ==
    pc # "loop" => \A k \in (idx + 1)..Len(files) : ~files[k].isfile

-----------------------------------------------------------------------------
(* C8 *)

\* C8: when loading the document fails, generate_xsd returns an absent
\* result without invoking the core (no process_element call, the fields of
\* the instance as they were), and no schema file is written for it.
C8_LoadFailureAbsent ==
    /\ (xsd_schema # <<>> /\ xml_file = <<>>) =>
          /\ xsd_schema[1] = None
          /\ calls = <<>>
          /\ infers = 0
          /\ xsd = XSDGenerator.xsd
          /\ processed_elements = XSDGenerator.processed_elements
          /\ repeated_elements = XSDGenerator.repeated_elements
    /\ \A k \in written : files[k].xml # <<>>
====
